---- MODULE Spec2Model ----
(***************************************************************************)
(* A model of esrlabs::estd::vector (include/estd/vector.h), of the       *)
(* in-place construction helper (include/estd/constructor.h) and of the   *)
(* assertion facility (src/estd/assert.cpp, include/estd/assert.h).       *)
(*                                                                         *)
(* Storage is modelled slot by slot.  A slot holds the bytes last written *)
(* to it (val) and a ghost flag (obj) telling whether an object of type T *)
(* currently lives in those bytes: placement new sets it, a destructor    *)
(* call clears it, memmove relocates it together with the bytes.          *)
(* Iterators are slot offsets from _data.                                  *)
(***************************************************************************)
EXTENDS Integers, Sequences, FiniteSets, TLC

VARIABLES
    vec,        \* vec[x]: the fields _data, _max_size, _size of vector x
    mem,        \* mem[b]: the inline buffer declare::vector b embeds
    handler,    \* the process-wide handler global_assert_handler()
    status,     \* "running", or "aborted" once the default handler ran assert(0)
    ub,         \* an access outside an inline buffer has happened
    leak,       \* an object was overwritten without its destructor having run
    rawDtor,    \* a destructor ran on a slot that held no object
    failed,     \* some estd_assert condition was false so far
    destroyed,  \* the declared vectors whose destructor has run
    calls,      \* calls[x]: number of fill calls made on x (fillVec scenario)
    scopes,     \* the AssertHandlerScope objects alive, innermost last
    installed,  \* ghost: the argument of the latest set_assert_handler call,
                \* "default" (the slot's static initialiser) before the first
    last        \* ghost: the last operation, its arguments, pre-state and effects

vars == <<vec, mem, handler, status, ub, leak, rawDtor, failed, destroyed, calls, scopes,
          installed, last>>

(* ------------------------------ bounds -------------------------------- *)

\* capacity N of the declared vector a, declare::vector<T, CapA>
CapA == 3
\* at most MaxScopes AssertHandlerScope objects are alive at a time
MaxScopes == 2
\* capacity of the second declared vector b
CapB == 2
\* element values are 0..MaxVal; T() is 0
MaxVal == 1
\* the fill scenario makes up to Cap + ExtraFill calls on a vector
ExtraFill == 2

\* width of size_type (std::size_t) and difference_type (std::ptrdiff_t)
\* in bits, as on a 16-bit target
SizeBits == 16
SizeMod == 2 ^ SizeBits
\* sizeof(T), T = int on that target
SizeofT == 2

\* conversion of an integer to size_type, and of a size_type bit pattern
\* to difference_type
ToSizeType(i) == i % SizeMod
ToDifferenceType(u) == IF u % SizeMod >= SizeMod \div 2 THEN (u % SizeMod) - SizeMod ELSE u % SizeMod
\* the number of slots covered by sizeof(T) * d bytes, the byte count
\* being a size_type
SlotCount(d) == ToSizeType(SizeofT * d) \div SizeofT

Names == {"a", "b"}
Cap(b) == IF b = "a" THEN CapA ELSE CapB
Val == 0 .. MaxVal

Min(i, j) == IF i < j THEN i ELSE j

(* ------------------------- assertion facility ------------------------- *)

\* The handlers that can sit in the handler slot.  "default" is
\* AssertDefaultHandler (assert(0), NDEBUG not defined: the process
\* aborts), "exception" is
\* AssertExceptionHandler (throws assert_exception, ESTD_HAS_EXCEPTIONS
\* defined), "user" is a handler of the caller that returns normally (a
\* counting handler), "null" is the null pointer, which assert_func skips.
Handlers == {"default", "exception", "user", "null"}

\* The machine state an operation works on: the program state plus the
\* ghost record of what the operation did.
Machine ==
    [vec |-> vec, mem |-> mem, handler |-> handler, ub |-> ub, leak |-> leak,
     rawDtor |-> rawDtor, stop |-> "no", nfail |-> 0, invoked |-> << >>,
     checks |-> << >>, ctx |-> << >>,
     ctors |-> << >>, dtors |-> << >>, copies |-> << >>, ret |-> -1]

Stopped(M) == M.stop # "no"

\* a faulty assert_func that never calls the handler
assert_func_nocall(M, file, line, test) ==
    [M EXCEPT !.nfail = @ + 1]
\* a faulty assert_func that calls AssertDefaultHandler whatever handler
\* is installed
assert_func_default(M, file, line, test) ==
    [M EXCEPT !.nfail = @ + 1, !.invoked = Append(@, "default"),
              !.ctx = Append(@, [file |-> file, line |-> line, test |-> test]),
              !.stop = "aborted"]
\* a faulty assert_func that calls through the handler slot without testing
\* it: the call through a null pointer ends the program
assert_func_callsnull(M, file, line, test) ==
    LET M1 == [M EXCEPT !.nfail = @ + 1]
        M2 == [M1 EXCEPT !.invoked = Append(@, M.handler),
                         !.ctx = Append(@, [file |-> file, line |-> line,
                                            test |-> test])]
    IN CASE M.handler \in {"default", "null"} -> [M2 EXCEPT !.stop = "aborted"]
         [] M.handler = "exception" -> [M2 EXCEPT !.stop = "raised"]
         [] OTHER -> M2
\* assert_func(file, line, test): call the installed handler with
\* (file, line, test) unless it is null.  nfail counts the calls of
\* assert_func, invoked lists the handlers called and ctx the arguments
\* they were called with; stop tells how the handler ended the operation.
assert_func(M, file, line, test) ==
    LET M1 == [M EXCEPT !.nfail = @ + 1] IN
    IF M.handler = "null" THEN M1
    ELSE LET M2 == [M1 EXCEPT !.invoked = Append(@, M.handler),
                              !.ctx = Append(@, [file |-> file, line |-> line,
                                                 test |-> test])]
         IN CASE M.handler = "default"   -> [M2 EXCEPT !.stop = "aborted"]
              [] M.handler = "exception" -> [M2 EXCEPT !.stop = "raised"]
              [] OTHER                   -> M2

\* estd_assert(E): ((E) ? (void)0 : assert_func((const char *)0, __LINE__, #E)),
\* the check standing at the given line of vector.h; the null pointer is
\* written 0.  checks lists the checks that were false.
estd_assert(M, E, line, test) ==
    IF E THEN M
    ELSE assert_func([M EXCEPT !.checks = Append(@, [file |-> 0, line |-> line,
                                                      test |-> test])],
                     0, line, test)

(* --------------------------- raw storage ------------------------------ *)

InBuf(b, i) == i >= 0 /\ i < Cap(b)

\* placement new: new(&_data[sizeof(T) * i]) T(v)
construct_at(M, b, i, v) ==
    IF ~InBuf(b, i)
    THEN [M EXCEPT !.ub = TRUE, !.ctors = Append(@, i)]
    ELSE [M EXCEPT !.leak = @ \/ M.mem[b][i].obj,
                   !.mem[b][i] = [obj |-> TRUE, val |-> v],
                   !.ctors = Append(@, i)]

\* explicit destructor call: reinterpret_cast<T*>(&_data[sizeof(T) * i])->~T()
destroy_at(M, b, i) ==
    IF ~InBuf(b, i)
    THEN [M EXCEPT !.ub = TRUE, !.rawDtor = TRUE, !.dtors = Append(@, i)]
    ELSE [M EXCEPT !.rawDtor = @ \/ ~M.mem[b][i].obj,
                   !.mem[b][i].obj = FALSE,
                   !.dtors = Append(@, i)]

\* copy assignment *d = *s of an element: slot i of buffer b takes the
\* value of slot j of buffer c
copy_assign_at(M, b, i, c, j) ==
    IF ~InBuf(b, i) \/ ~InBuf(c, j)
    THEN [M EXCEPT !.ub = TRUE, !.copies = Append(@, i)]
    ELSE [M EXCEPT !.mem[b][i].val = M.mem[c][j].val, !.copies = Append(@, i)]

\* memmove(dst, src, sizeof(T) * n) inside buffer b: the bytes of the n
\* slots from src are copied to dst as if through a temporary; the objects
\* living in them are relocated with the bytes.
memmove(M, b, dst, src, n) ==
    LET old == M.mem[b]
        inDst(i) == i >= dst /\ i < dst + n
        inSrc(i) == i >= src /\ i < src + n
        oob == n > 0 /\ (dst + n > Cap(b) \/ src + n > Cap(b) \/ dst < 0 \/ src < 0)
        new == [i \in 0 .. Cap(b) - 1 |->
                  IF inDst(i) /\ InBuf(b, i - dst + src) THEN old[i - dst + src]
                  ELSE IF inSrc(i) THEN [old[i] EXCEPT !.obj = FALSE]
                  ELSE old[i]]
        lost == \E i \in 0 .. Cap(b) - 1 : inDst(i) /\ ~inSrc(i) /\ old[i].obj
    IN  IF n <= 0 THEN M
        ELSE [M EXCEPT !.mem[b] = new, !.ub = @ \/ oob, !.leak = @ \/ lost]

(* ----------------------------- observers ------------------------------ *)

size(M, x) == M.vec[x].size
max_size(M, x) == M.vec[x].max_size
empty(M, x) == 0 = M.vec[x].size
full(M, x) == M.vec[x].size = M.vec[x].max_size

\* begin(): &_data[0]; end(): &_data[_size * sizeof(T)].  The byte index
\* is a size_type; the iterator is given as its offset from _data in slots.
begin(M, x) == 0
\* a faulty end() that uses _max_size
end_max(M, x) ==
    ToDifferenceType(ToSizeType(M.vec[x].max_size * SizeofT)) \div SizeofT
end(M, x) ==
    ToDifferenceType(ToSizeType(M.vec[x].size * SizeofT)) \div SizeofT

\* operator[](index): *reinterpret_cast<const_pointer>(&_data[index * sizeof(T)])
subscript(M, x, index) ==
    [M EXCEPT !.ret = index, !.ub = @ \/ ~InBuf(M.vec[x].data, index)]

\* at(index)
at(M, x, index) ==
    LET M1 == estd_assert(M, index < size(M, x), 872, "index < size()") IN
    IF Stopped(M1) THEN M1 ELSE subscript(M1, x, index)

\* front()
front(M, x) ==
    LET M1 == estd_assert(M, size(M, x) > 0, 887, "size() > 0") IN
    IF Stopped(M1) THEN M1 ELSE subscript(M1, x, 0)

\* a faulty back() that returns the slot at _size
back_at_size(M, x) ==
    LET M1 == estd_assert(M, size(M, x) > 0, 902, "size() > 0") IN
    IF Stopped(M1) THEN M1 ELSE subscript(M1, x, M1.vec[x].size)
\* back(): &_data[sizeof(T) * (_size - 1)], _size - 1 in size_type
back(M, x) ==
    LET M1 == estd_assert(M, size(M, x) > 0, 902, "size() > 0") IN
    IF Stopped(M1) THEN M1
    ELSE subscript(M1, x, (M1.vec[x].size - 1) % SizeMod)

(* ---------------------------- comparisons ----------------------------- *)

\* *(x.begin() + i)
elem(M, x, i) == M.mem[M.vec[x].data][i].val

\* std::equal(x.begin(), x.end(), y.begin()), from element i on
RECURSIVE std_equal(_, _, _, _)
std_equal(M, x, y, i) ==
    IF i >= size(M, x) THEN TRUE
    ELSE IF elem(M, x, i) # elem(M, y, i) THEN FALSE
    ELSE std_equal(M, x, y, i + 1)

\* std::lexicographical_compare(x.begin(), x.end(), y.begin(), y.end()),
\* from element i on
RECURSIVE lexicographical_compare(_, _, _, _)
lexicographical_compare(M, x, y, i) ==
    IF i >= size(M, x) \/ i >= size(M, y)
    THEN i >= size(M, x) /\ i < size(M, y)
    ELSE IF elem(M, x, i) < elem(M, y, i) THEN TRUE
    ELSE IF elem(M, y, i) < elem(M, x, i) THEN FALSE
    ELSE lexicographical_compare(M, x, y, i + 1)

\* a faulty operator== that compares the sizes only
op_eq_sizeonly(M, x, y) == size(M, x) = size(M, y)
\* operator==(x, y)
op_eq(M, x, y) == size(M, x) = size(M, y) /\ std_equal(M, x, y, 0)
\* operator!=(x, y)
op_ne(M, x, y) == ~op_eq(M, x, y)
\* operator<(x, y)
op_lt(M, x, y) == size(M, x) = size(M, y) /\ lexicographical_compare(M, x, y, 0)
\* operator>(x, y)
op_gt(M, x, y) == op_lt(M, y, x)
\* operator>=(x, y)
op_ge(M, x, y) == ~op_gt(M, y, x)
\* operator<=(x, y)
op_le(M, x, y) == ~op_gt(M, x, y)

(* ----------------------------- mutators ------------------------------- *)

\* push_back(): *new(&_data[sizeof(T) * _size++]) T()
push_back0(M, x) ==
    LET M1 == estd_assert(M, ~full(M, x), 910, "!full()") IN
    IF Stopped(M1) THEN M1
    ELSE LET s == M1.vec[x].size
             M2 == [M1 EXCEPT !.vec[x].size = (s + 1) % SizeMod]
         IN [construct_at(M2, M2.vec[x].data, s, 0) EXCEPT !.ret = s]

\* a faulty push_back(value) without the check of full()
push_back_nocheck(M, x, value) ==
    LET s == M.vec[x].size
        M2 == [M EXCEPT !.vec[x].size = (s + 1) % SizeMod]
    IN construct_at(M2, M2.vec[x].data, s, value)
\* a faulty push_back(value) that constructs at slot 0
push_back_front(M, x, value) ==
    LET M1 == estd_assert(M, ~full(M, x), 918, "!full()") IN
    IF Stopped(M1) THEN M1
    ELSE LET s == M1.vec[x].size
             M2 == [M1 EXCEPT !.vec[x].size = (s + 1) % SizeMod]
         IN construct_at(M2, M2.vec[x].data, 0, value)
\* push_back(value): (void)*new(&_data[sizeof(T) * _size++]) T(value)
push_back(M, x, value) ==
    LET M1 == estd_assert(M, ~full(M, x), 918, "!full()") IN
    IF Stopped(M1) THEN M1
    ELSE LET s == M1.vec[x].size
             M2 == [M1 EXCEPT !.vec[x].size = (s + 1) % SizeMod]
         IN construct_at(M2, M2.vec[x].data, s, value)

\* a faulty constructor<T>::construct(p1) that constructs T()
construct_default(M, x, p1) ==
    IF Stopped(M) THEN M ELSE construct_at(M, M.vec[x].data, M.ret, 0)
\* constructor<T>::construct(p1): *new (_memory) T(p1); the helper is
\* bound to slot M.ret of the buffer of x by emplace_back / emplace
construct(M, x, p1) ==
    IF Stopped(M) THEN M ELSE construct_at(M, M.vec[x].data, M.ret, p1)

\* emplace_back(): constructor<T>(&_data[sizeof(T) * _size++])
emplace_back(M, x) ==
    LET M1 == estd_assert(M, ~full(M, x), 926, "!full()") IN
    IF Stopped(M1) THEN M1
    ELSE LET s == M1.vec[x].size
         IN [M1 EXCEPT !.vec[x].size = (s + 1) % SizeMod, !.ret = s]

\* emplace(position)
emplace(M, x, position) ==
    LET M1 == estd_assert(M, ~full(M, x), 934, "!full()") IN
    IF Stopped(M1) THEN M1
    ELSE LET b  == M1.vec[x].data
             M2 == memmove(M1, b, position + 1, position,
                           SlotCount(end(M1, x) - position))
         IN [M2 EXCEPT !.vec[x].size = (@ + 1) % SizeMod, !.ret = position]

\* a faulty pop_back() that drops every element
pop_back_all(M, x) ==
    LET M1 == estd_assert(M, size(M, x) > 0, 945, "size() > 0") IN
    IF Stopped(M1) THEN M1
    ELSE LET s == M1.vec[x].size
             M2 == [M1 EXCEPT !.vec[x].size = 0]
         IN destroy_at(M2, M2.vec[x].data, s)
\* pop_back(): reinterpret_cast<T*>(&_data[sizeof(T) * _size--])->~T()
pop_back(M, x) ==
    LET M1 == estd_assert(M, size(M, x) > 0, 945, "size() > 0") IN
    IF Stopped(M1) THEN M1
    ELSE LET s == M1.vec[x].size
             M2 == [M1 EXCEPT !.vec[x].size = (s - 1) % SizeMod]
         IN destroy_at(M2, M2.vec[x].data, s)

\* a faulty insert(position, value) that leaves out the memmove
insert_noshift(M, x, position, value) ==
    LET M1 == estd_assert(M, size(M, x) < max_size(M, x), 953, "size() < max_size()") IN
    IF Stopped(M1) THEN M1
    ELSE LET b  == M1.vec[x].data
             M3 == construct_at(M1, b, position, value)
         IN [M3 EXCEPT !.vec[x].size = (@ + 1) % SizeMod, !.ret = position]
\* a faulty insert(position, value) that shifts the tail before it checks
insert_shiftfirst(M, x, position, value) ==
    LET b  == M.vec[x].data
        M0 == memmove(M, b, position + 1, position, SlotCount(end(M, x) - position))
        M1 == estd_assert(M0, size(M0, x) < max_size(M0, x), 953, "size() < max_size()")
    IN IF Stopped(M1) THEN M1
       ELSE LET M3 == construct_at(M1, b, position, value)
            IN [M3 EXCEPT !.vec[x].size = (@ + 1) % SizeMod, !.ret = position]
\* insert(position, value)
insert(M, x, position, value) ==
    LET M1 == estd_assert(M, size(M, x) < max_size(M, x), 953, "size() < max_size()") IN
    IF Stopped(M1) THEN M1
    ELSE LET b  == M1.vec[x].data
             M2 == memmove(M1, b, position + 1, position,
                           SlotCount(end(M1, x) - position))
             M3 == construct_at(M2, b, position, value)
         IN [M3 EXCEPT !.vec[x].size = (@ + 1) % SizeMod, !.ret = position]

\* a faulty erase(position) that leaves out the memmove
erase_noshift(M, x, position) ==
    IF position = end(M, x) THEN [M EXCEPT !.ret = position]
    ELSE LET M1 == estd_assert(M, size(M, x) > 0, 1000, "size() > 0") IN
         IF Stopped(M1) THEN M1
         ELSE LET M2 == destroy_at(M1, M1.vec[x].data, position)
              IN [M2 EXCEPT !.vec[x].size = (@ - 1) % SizeMod, !.ret = position]
\* a faulty erase(position) that checks size() > 0 before it compares
\* position with cend()
erase_checkfirst(M, x, position) ==
    LET M1 == estd_assert(M, size(M, x) > 0, 1000, "size() > 0") IN
    IF Stopped(M1) \/ position = end(M, x) THEN [M1 EXCEPT !.ret = position]
    ELSE LET b  == M1.vec[x].data
             M2 == destroy_at(M1, b, position)
             M3 == IF position + 1 # end(M2, x)
                   THEN memmove(M2, b, position, position + 1,
                                SlotCount(end(M2, x) - position - 1))
                   ELSE M2
         IN [M3 EXCEPT !.vec[x].size = (@ - 1) % SizeMod, !.ret = position]
\* for (i = 0; i < n; ++i) { (void)new(dst++)value_type(value); } with dst
\* at slot i of buffer b
RECURSIVE construct_n(_, _, _, _, _)
construct_n(M, b, i, n, value) ==
    IF n <= 0 \/ M.ub THEN M
    ELSE construct_n(construct_at(M, b, i, value), b, i + 1, n - 1, value)

\* insert(position, n, value): size() + n is computed in size_type
insert_n(M, x, position, n, value) ==
    LET M1 == estd_assert(M, ToSizeType(size(M, x) + n) <= max_size(M, x), 965, "(size() + n) <= max_size()") IN
    IF Stopped(M1) THEN M1
    ELSE LET b  == M1.vec[x].data
             M2 == memmove(M1, b, position + n, position,
                           SlotCount(end(M1, x) - position))
             M3 == construct_n(M2, b, position, n, value)
         IN [M3 EXCEPT !.vec[x].size = ToSizeType(@ + n), !.ret = -1]

\* a faulty range_insert that does not advance position
RECURSIVE range_insert_samepos(_, _, _, _, _)
range_insert_samepos(M, x, position, src, i) ==
    IF full(M, x) \/ i > Len(src) \/ Stopped(M) \/ M.ub THEN M
    ELSE range_insert_samepos(insert(M, x, position, src[i]), x, position, src, i + 1)
\* range_insert(position, first, last, tag), the same for both iterator
\* categories: while (!full() && (first != last))
\* { insert(position, *first); ++position; ++first; }
\* with [first, last) the elements i .. Len(src) of src
RECURSIVE range_insert(_, _, _, _, _)
range_insert(M, x, position, src, i) ==
    IF full(M, x) \/ i > Len(src) \/ Stopped(M) \/ M.ub THEN M
    ELSE range_insert(insert(M, x, position, src[i]), x, position + 1, src, i + 1)

\* a faulty range_insert that does not test full()
RECURSIVE range_insert_unguarded(_, _, _, _, _)
range_insert_unguarded(M, x, position, src, i) ==
    IF i > Len(src) \/ Stopped(M) \/ M.ub THEN M
    ELSE range_insert_unguarded(insert(M, x, position, src[i]), x, position + 1, src, i + 1)
\* a faulty insert(position, first, last) built on it
insert_range_unguarded(M, x, position, src) ==
    [range_insert_unguarded(M, x, position, src, 1) EXCEPT !.ret = position]
\* a faulty insert(position, first, last) built on it
insert_range_samepos(M, x, position, src) ==
    [range_insert_samepos(M, x, position, src, 1) EXCEPT !.ret = position]
\* insert(position, first, last): returns start, the position it was given
insert_range(M, x, position, src) ==
    [range_insert(M, x, position, src, 1) EXCEPT !.ret = position]

\* erase(position)
erase(M, x, position) ==
    IF position = end(M, x) THEN [M EXCEPT !.ret = position]
    ELSE LET M1 == estd_assert(M, size(M, x) > 0, 1000, "size() > 0") IN
         IF Stopped(M1) THEN M1
         ELSE LET b  == M1.vec[x].data
                  M2 == destroy_at(M1, b, position)
                  M3 == IF position + 1 # end(M2, x)
                        THEN memmove(M2, b, position, position + 1,
                                     SlotCount(end(M2, x) - position - 1))
                        ELSE M2
              IN [M3 EXCEPT !.vec[x].size = (@ - 1) % SizeMod, !.ret = position]

\* clear(): destroy slots 0 .. _size-1 in ascending order, then _size = 0
RECURSIVE destroy_range(_, _, _, _)
destroy_range(M, b, i, n) ==
    IF i >= n THEN M
    ELSE IF ~InBuf(b, i)
         THEN [M EXCEPT !.ub = TRUE, !.rawDtor = TRUE, !.dtors = Append(@, i)]
         ELSE destroy_range(destroy_at(M, b, i), b, i + 1, n)

\* a faulty clear() that resets _size without destroying the last element
clear_short(M, x) ==
    LET M1 == destroy_range(M, M.vec[x].data, 0, M.vec[x].size - 1)
    IN [M1 EXCEPT !.vec[x].size = 0]
clear(M, x) ==
    LET M1 == destroy_range(M, M.vec[x].data, 0, M.vec[x].size)
    IN [M1 EXCEPT !.vec[x].size = 0]

\* a faulty erase(first, last) that moves the tail one slot too far left
erase_range_shifted(M, x, first, lastIt) ==
    LET M1 == estd_assert(M, lastIt <= end(M, x), 1015, "last <= cend()") IN
    IF Stopped(M1) THEN M1
    ELSE IF lastIt < first THEN [M1 EXCEPT !.ret = lastIt]
    ELSE LET b  == M1.vec[x].data
             M2 == destroy_range(M1, b, first, lastIt)
             M3 == memmove(M2, b, first - 1, lastIt, SlotCount(end(M2, x) - lastIt))
         IN [M3 EXCEPT !.vec[x].size = (@ - (lastIt - first)) % SizeMod,
                       !.ret = first]
\* erase(first, last): the destructors of [first, last) run in ascending
\* order, [last, end) is moved to first, _size -= (last - first)
erase_range(M, x, first, lastIt) ==
    LET M1 == estd_assert(M, lastIt <= end(M, x), 1015, "last <= cend()") IN
    IF Stopped(M1) THEN M1
    ELSE IF lastIt < first THEN [M1 EXCEPT !.ret = lastIt]
    ELSE LET b  == M1.vec[x].data
             M2 == destroy_range(M1, b, first, lastIt)
             M3 == memmove(M2, b, first, lastIt, SlotCount(end(M2, x) - lastIt))
         IN [M3 EXCEPT !.vec[x].size = (@ - (lastIt - first)) % SizeMod,
                       !.ret = first]

\* n times emplace_back().construct(value); a raising or aborting handler
\* ends the loop
RECURSIVE fill_n(_, _, _, _)
fill_n(M, x, n, value) ==
    IF n <= 0 \/ Stopped(M) \/ M.ub THEN M
    ELSE fill_n(construct(emplace_back(M, x), x, value), x, n - 1, value)

\* a faulty assign(n, value) that does not clamp n to max_size()
assign_n_noclamp(M, x, n, value) ==
    [fill_n(clear(M, x), x, n, value) EXCEPT !.ret = -1]
\* assign(n, value): clear(); n = std::min(n, max_size());
\* while (n > 0) { emplace_back().construct(value); --n; }
assign_n(M, x, n, value) ==
    LET M1 == clear(M, x)
    IN [fill_n(M1, x, Min(n, max_size(M1, x)), value) EXCEPT !.ret = -1]

\* while (!full() && (first != last)) { emplace_back().construct(*first);
\* ++first; } with [first, last) the elements i .. Len(src) of src
RECURSIVE fill_from(_, _, _, _)
fill_from(M, x, src, i) ==
    IF full(M, x) \/ i > Len(src) \/ Stopped(M) \/ M.ub THEN M
    ELSE fill_from(construct(emplace_back(M, x), x, src[i]), x, src, i + 1)

\* a faulty assign(first, last) that leaves out clear()
assign_range_noclear(M, x, src) ==
    [fill_from(M, x, src, 1) EXCEPT !.ret = -1]
\* assign(first, last), the range [first, last) given as the sequence src
\* of the values it yields
assign_range(M, x, src) ==
    [fill_from(clear(M, x), x, src, 1) EXCEPT !.ret = -1]

\* std::copy(other.cbegin(), other.cbegin() + n, begin()), from element i on
RECURSIVE std_copy(_, _, _, _, _)
std_copy(M, x, other, i, n) ==
    IF i >= n \/ M.ub THEN M
    ELSE std_copy(copy_assign_at(M, M.vec[x].data, i, M.vec[other].data, i),
                  x, other, i + 1, n)

\* the values of the elements [i, j) of other, as a source range
RangeOf(M, other, i, j) ==
    [k \in 1 .. j - i |-> M.mem[M.vec[other].data][i + k - 1].val]

\* a faulty operator= that copies over the common prefix only
assign_op_prefix(M, x, other) ==
    IF M.vec[x].data = M.vec[other].data THEN M
    ELSE LET M1 == estd_assert(M, max_size(M, x) >= size(M, other), 690, "_max_size >= other._size") IN
         IF Stopped(M1) THEN M1
         ELSE std_copy(M1, x, other, 0, Min(size(M1, x), size(M1, other)))
\* a faulty operator= without the check of _max_size >= other._size
assign_op_nocheck(M, x, other) ==
    IF M.vec[x].data = M.vec[other].data THEN M
    ELSE LET M1 == M IN
         IF Stopped(M1) THEN M1
         ELSE IF size(M1, other) > Cap(M1.vec[other].data)
              THEN [M1 EXCEPT !.ub = TRUE]
         ELSE IF size(M1, x) >= size(M1, other)
              THEN LET M2 == std_copy(M1, x, other, 0, size(M1, other))
                       M3 == erase_range(M2, x, begin(M2, x) + size(M2, other),
                                         end(M2, x))
                   IN [M3 EXCEPT !.ret = -1]
              ELSE LET M2 == std_copy(M1, x, other, 0, size(M1, x))
                       M3 == insert_range(M2, x, begin(M2, x) + size(M2, x),
                                          RangeOf(M2, other, size(M2, x), size(M2, other)))
                   IN [M3 EXCEPT !.ret = -1]
\* a faulty operator= without the test for the identical vector
assign_op_noself(M, x, other) ==
    IF FALSE THEN M
    ELSE LET M1 == estd_assert(M, max_size(M, x) >= size(M, other), 690, "_max_size >= other._size") IN
         IF Stopped(M1) THEN M1
         ELSE IF size(M1, other) > Cap(M1.vec[other].data)
              THEN [M1 EXCEPT !.ub = TRUE]
         ELSE IF size(M1, x) >= size(M1, other)
              THEN LET M2 == std_copy(M1, x, other, 0, size(M1, other))
                       M3 == erase_range(M2, x, begin(M2, x) + size(M2, other),
                                         end(M2, x))
                   IN [M3 EXCEPT !.ret = -1]
              ELSE LET M2 == std_copy(M1, x, other, 0, size(M1, x))
                       M3 == insert_range(M2, x, begin(M2, x) + size(M2, x),
                                          RangeOf(M2, other, size(M2, x), size(M2, other)))
                   IN [M3 EXCEPT !.ret = -1]
\* operator=(other)
assign_op(M, x, other) ==
    IF M.vec[x].data = M.vec[other].data THEN M
    ELSE LET M1 == estd_assert(M, max_size(M, x) >= size(M, other), 690, "_max_size >= other._size") IN
         IF Stopped(M1) THEN M1
         ELSE IF size(M1, other) > Cap(M1.vec[other].data)
              THEN [M1 EXCEPT !.ub = TRUE]
         ELSE IF size(M1, x) >= size(M1, other)
              THEN LET M2 == std_copy(M1, x, other, 0, size(M1, other))
                       M3 == erase_range(M2, x, begin(M2, x) + size(M2, other),
                                         end(M2, x))
                   IN [M3 EXCEPT !.ret = -1]
              ELSE LET M2 == std_copy(M1, x, other, 0, size(M1, x))
                       M3 == insert_range(M2, x, begin(M2, x) + size(M2, x),
                                          RangeOf(M2, other, size(M2, x), size(M2, other)))
                   IN [M3 EXCEPT !.ret = -1]

\* a faulty swap(other) that leaves out std::swap(_size, other._size)
swap_nosize(M, x, other) ==
    [M EXCEPT !.vec[x].data = M.vec[other].data,
              !.vec[other].data = M.vec[x].data,
              !.vec[x].max_size = M.vec[other].max_size,
              !.vec[other].max_size = M.vec[x].max_size]
\* swap(other): std::swap(_data, other._data);
\* std::swap(_max_size, other._max_size); std::swap(_size, other._size)
swap(M, x, other) ==
    [M EXCEPT !.vec[x].data = M.vec[other].data,
              !.vec[other].data = M.vec[x].data,
              !.vec[x].max_size = M.vec[other].max_size,
              !.vec[other].max_size = M.vec[x].max_size,
              !.vec[x].size = M.vec[other].size,
              !.vec[other].size = M.vec[x].size]

\* vector<T>::vector(data, size) on the zero-initialised inline buffer:
\* declare::vector<T, N>::vector().  Objects still living in the storage
\* the new vector occupies are lost.
ctor(M, x) ==
    [M EXCEPT !.vec[x] = [data |-> x, max_size |-> (SizeofT * Cap(x)) \div SizeofT,
                          size |-> 0],
              !.mem[x] = [i \in 0 .. Cap(x) - 1 |-> [obj |-> FALSE, val |-> 0]],
              !.leak = @ \/ \E i \in 0 .. Cap(x) - 1 : M.mem[x][i].obj]

\* declare::vector<T, N>::vector(n, value): base::assign(std::min(n, N), value)
ctor_fill(M, x, n, value) == assign_n(ctor(M, x), x, Min(n, Cap(x)), value)

\* declare::vector<T, N>::~vector(): base::clear()
dtor(M, x) == clear(M, x)

\* set_assert_handler(handler)
set_assert_handler(h) == h

\* a faulty get_assert_handler() that returns the default handler
get_assert_handler_default(h) == "default"
\* get_assert_handler(), h being the content of the handler slot
get_assert_handler(h) == h

\* a faulty AssertHandlerScope(next) that saves next
AssertHandlerScope_savenext(h, next) ==
    [current |-> next, installed |-> set_assert_handler(next)]
\* AssertHandlerScope(next): _current = get_assert_handler();
\* set_assert_handler(next).  h is the content of the handler slot.
AssertHandlerScope(h, next) ==
    [current |-> get_assert_handler(h), installed |-> set_assert_handler(next)]

\* a faulty ~AssertHandlerScope() that installs the default handler
AssertHandlerScope_dtor_default(scope) == set_assert_handler("default")
\* ~AssertHandlerScope(): set_assert_handler(_current)
AssertHandlerScope_dtor(scope) == set_assert_handler(scope.current)

(* ------------------------------ actions ------------------------------- *)

\* the live elements of x as a sequence of values: slots 0 .. _size-1
ElemsOf(v, m, x) ==
    [i \in 1 .. Min(v[x].size, Cap(v[x].data)) |-> m[v[x].data][i - 1].val]
Elems(x) == ElemsOf(vec, mem, x)

NoOp == [op |-> "none", x |-> "a", args |-> << >>,
         pre |-> [vec |-> << >>, mem |-> << >>, handler |-> "default"],
         stop |-> "no", nfail |-> 0, invoked |-> << >>,
         checks |-> << >>, ctx |-> << >>,
         ctors |-> << >>, dtors |-> << >>, copies |-> << >>, ret |-> -1]

Init ==
    /\ vec = [x \in Names |-> [data |-> x, max_size |-> Cap(x), size |-> 0]]
    /\ mem = [b \in Names |-> [i \in 0 .. Cap(b) - 1 |-> [obj |-> FALSE, val |-> 0]]]
    /\ handler = "default"
    /\ status = "running"
    /\ ub = FALSE
    /\ leak = FALSE
    /\ rawDtor = FALSE
    /\ failed = FALSE
    /\ destroyed = {}
    /\ calls = [x \in Names |-> 0]
    /\ scopes = << >>
    /\ installed = "default"
    /\ last = NoOp

\* an operation may be called while the process runs, no undefined
\* behaviour has happened, the vector has not been destroyed and the
\* record of the previous call has been dropped
Callable(x) ==
    status = "running" /\ ~ub /\ x \notin destroyed /\ last.op = "none"

\* the program state after operation op(args) on x took Machine to M
Commit(op, x, args, M) ==
    /\ vec' = M.vec
    /\ mem' = M.mem
    /\ ub' = M.ub
    /\ leak' = M.leak
    /\ rawDtor' = M.rawDtor
    /\ status' = IF M.stop = "aborted" THEN "aborted" ELSE status
    /\ failed' = (failed \/ M.nfail > 0)
    /\ last' = [op |-> op, x |-> x, args |-> args,
                pre |-> [vec |-> vec, mem |-> mem, handler |-> handler],
                stop |-> M.stop, nfail |-> M.nfail, invoked |-> M.invoked,
                checks |-> M.checks, ctx |-> M.ctx,
                ctors |-> M.ctors, dtors |-> M.dtors, copies |-> M.copies,
                ret |-> M.ret]
    /\ UNCHANGED <<handler, scopes, installed>>

\* positions an iterator argument is drawn from: begin() .. end()
Positions(x) == 0 .. Min(vec[x].size, Cap(vec[x].data))
\* pointers into the buffer of x an iterator argument that need not lie
\* in [begin(), end()] is drawn from: &_data[0] .. one past the buffer
Pointers(x) == 0 .. Cap(vec[x].data)
\* element counts an argument n is drawn from: up to one more than the
\* capacity, and the largest size_type
Counts(x) == (0 .. Cap(vec[x].data) + 1) \cup {SizeMod - 1}
\* the values a source range [first, last) outside the vector yields:
\* runs of consecutive values of every length up to one more than the
\* capacity, from every starting value
Sources(x) ==
    { [k \in 1 .. n |-> (o + k - 1) % (MaxVal + 1)] :
        n \in 0 .. Cap(vec[x].data) + 1, o \in Val }
\* indices an index argument is drawn from
Indices(x) == 0 .. Cap(vec[x].data) + 1

\* the vectors the single-vector operations are applied to
Active == {"a"}

\* The record of the last call is ghost state: Forget drops it, so that
\* the calls that follow depend on the program state alone.
Forget ==
    /\ last.op # "none"
    /\ last' = NoOp
    /\ UNCHANGED <<vec, mem, handler, status, ub, leak, rawDtor, failed, destroyed, calls, scopes,
                   installed>>

SetHandler ==
    /\ status = "running" /\ ~ub /\ last.op = "none"
    /\ \E h \in Handlers :
        /\ h # handler
        /\ handler' = set_assert_handler(h)
        /\ installed' = h
        /\ last' = [NoOp EXCEPT !.op = "set_assert_handler", !.args = <<h>>,
                                !.pre = [vec |-> vec, mem |-> mem, handler |-> handler]]
    /\ UNCHANGED <<vec, mem, status, ub, leak, rawDtor, failed, destroyed, calls, scopes>>

\* set_assert_handler(h) called while no AssertHandlerScope is alive
Install ==
    /\ scopes = << >>
    /\ SetHandler

\* set_assert_handler(AssertExceptionHandler)
InstallRaising ==
    /\ SetHandler
    /\ handler' = "exception"

\* AssertHandlerScope scope(next): an object with automatic storage is
\* constructed.  The ghost fields next and outer keep the replacement and
\* the handler that was installed when the scope was entered.
EnterScope ==
    /\ status = "running" /\ ~ub /\ last.op = "none"
    /\ Len(scopes) < MaxScopes
    /\ \E next \in Handlers :
        LET s == AssertHandlerScope(handler, next) IN
        /\ handler' = s.installed
        /\ scopes' = Append(scopes, [current |-> s.current, next |-> next,
                                     outer |-> handler])
        /\ last' = [NoOp EXCEPT !.op = "scope_enter", !.args = <<next>>,
                                !.pre = [vec |-> vec, mem |-> mem, handler |-> handler]]
    /\ UNCHANGED <<vec, mem, status, ub, leak, rawDtor, failed, destroyed, calls, installed>>

\* the innermost AssertHandlerScope object goes out of scope: objects with
\* automatic storage are destroyed in the reverse order of construction
ExitScope ==
    /\ status = "running" /\ ~ub /\ last.op = "none"
    /\ scopes # << >>
    /\ handler' = AssertHandlerScope_dtor(scopes[Len(scopes)])
    /\ scopes' = SubSeq(scopes, 1, Len(scopes) - 1)
    /\ last' = [NoOp EXCEPT !.op = "scope_exit", !.args = <<scopes[Len(scopes)]>>,
                            !.pre = [vec |-> vec, mem |-> mem, handler |-> handler]]
    /\ UNCHANGED <<vec, mem, status, ub, leak, rawDtor, failed, destroyed, calls, installed>>

\* any of the AssertHandlerScope objects alive is destroyed, the innermost
\* or not (objects with dynamic storage, or members of other objects, are
\* destroyed in any order).  args: the object, its depth, the depth of the
\* innermost one.
ExitAnyScope ==
    /\ status = "running" /\ ~ub /\ last.op = "none"
    /\ \E i \in 1 .. Len(scopes) :
        /\ handler' = AssertHandlerScope_dtor(scopes[i])
        /\ scopes' = SubSeq(scopes, 1, i - 1) \o SubSeq(scopes, i + 1, Len(scopes))
        /\ last' = [NoOp EXCEPT !.op = "scope_exit",
                                !.args = <<scopes[i], i, Len(scopes)>>,
                                !.pre = [vec |-> vec, mem |-> mem, handler |-> handler]]
    /\ UNCHANGED <<vec, mem, status, ub, leak, rawDtor, failed, destroyed, calls, installed>>

\* get_assert_handler() is called; the call changes nothing
GetHandler ==
    /\ status = "running" /\ ~ub /\ last.op = "none"
    /\ last' = [NoOp EXCEPT !.op = "get_assert_handler",
                            !.pre = [vec |-> vec, mem |-> mem, handler |-> handler],
                            !.ret = get_assert_handler(handler)]
    /\ UNCHANGED <<vec, mem, handler, status, ub, leak, rawDtor, failed, destroyed, calls,
                   scopes, installed>>

At ==
    \E x \in Active : \E i \in Indices(x) :
        /\ Callable(x)
        /\ Commit("at", x, <<i>>, at(Machine, x, i))
        /\ UNCHANGED <<destroyed, calls>>

Front ==
    \E x \in Active :
        /\ Callable(x)
        /\ Commit("front", x, << >>, front(Machine, x))
        /\ UNCHANGED <<destroyed, calls>>

Back ==
    \E x \in Active :
        /\ Callable(x)
        /\ Commit("back", x, << >>, back(Machine, x))
        /\ UNCHANGED <<destroyed, calls>>

PushBack0 ==
    \E x \in Active :
        /\ Callable(x)
        /\ Commit("push_back0", x, << >>, push_back0(Machine, x))
        /\ UNCHANGED <<destroyed, calls>>

PushBack ==
    \E x \in Active : \E v \in Val :
        /\ Callable(x)
        /\ Commit("push_back", x, <<v>>, push_back(Machine, x, v))
        /\ UNCHANGED <<destroyed, calls>>

\* emplace_back().construct(v)
EmplaceBack ==
    \E x \in Active : \E v \in Val :
        /\ Callable(x)
        /\ Commit("emplace_back", x, <<v>>, construct(emplace_back(Machine, x), x, v))
        /\ UNCHANGED <<destroyed, calls>>

\* emplace(p).construct(v)
Emplace ==
    \E x \in Active : \E p \in Positions(x) : \E v \in Val :
        /\ Callable(x)
        /\ Commit("emplace", x, <<p, v>>, construct(emplace(Machine, x, p), x, v))
        /\ UNCHANGED <<destroyed, calls>>

PopBack ==
    \E x \in Active :
        /\ Callable(x)
        /\ Commit("pop_back", x, << >>, pop_back(Machine, x))
        /\ UNCHANGED <<destroyed, calls>>

Insert ==
    \E x \in Active : \E p \in Positions(x) : \E v \in Val :
        /\ Callable(x)
        /\ Commit("insert", x, <<p, v>>, insert(Machine, x, p, v))
        /\ UNCHANGED <<destroyed, calls>>

InsertN ==
    \E x \in Active : \E p \in Positions(x) : \E n \in Counts(x) : \E v \in Val :
        /\ Callable(x)
        /\ Commit("insert_n", x, <<p, n, v>>, insert_n(Machine, x, p, n, v))
        /\ UNCHANGED <<destroyed, calls>>

InsertRange ==
    \E x \in Active : \E p \in Positions(x) : \E src \in Sources(x) :
        /\ Callable(x)
        /\ Commit("insert_range", x, <<p, src>>, insert_range(Machine, x, p, src))
        /\ UNCHANGED <<destroyed, calls>>

Erase ==
    \E x \in Active : \E p \in Positions(x) :
        /\ Callable(x)
        /\ Commit("erase", x, <<p>>, erase(Machine, x, p))
        /\ UNCHANGED <<destroyed, calls>>

EraseRange ==
    \E x \in Active : \E first \in Pointers(x) : \E l \in Pointers(x) :
        /\ Callable(x)
        /\ Commit("erase_range", x, <<first, l>>, erase_range(Machine, x, first, l))
        /\ UNCHANGED <<destroyed, calls>>

AssignN ==
    \E x \in Active : \E n \in Counts(x) : \E v \in Val :
        /\ Callable(x)
        /\ Commit("assign_n", x, <<n, v>>, assign_n(Machine, x, n, v))
        /\ UNCHANGED <<destroyed, calls>>

AssignRange ==
    \E x \in Active : \E src \in Sources(x) :
        /\ Callable(x)
        /\ Commit("assign_range", x, <<src>>, assign_range(Machine, x, src))
        /\ UNCHANGED <<destroyed, calls>>

Clear ==
    \E x \in Active :
        /\ Callable(x)
        /\ Commit("clear", x, << >>, clear(Machine, x))
        /\ UNCHANGED <<destroyed, calls>>

\* the declared vector goes out of scope
Destroy ==
    \E x \in Active :
        /\ Callable(x)
        /\ Commit("dtor", x, << >>, dtor(Machine, x))
        /\ destroyed' = destroyed \cup {x}
        /\ UNCHANGED calls

\* a vector is declared again, with the fill constructor, where a
\* destroyed one was: declare::vector<T, N> x(n, v)
DeclareFill ==
    \E x \in Active : \E n \in Counts(x) : \E v \in Val :
        /\ status = "running" /\ ~ub /\ last.op = "none"
        /\ x \in destroyed
        /\ Commit("ctor_fill", x, <<n, v>>, ctor_fill(Machine, x, n, v))
        /\ destroyed' = destroyed \ {x}
        /\ UNCHANGED calls

\* the values pushed where two vectors are involved: the smallest and the
\* largest
EndVal == {0, MaxVal}

\* push_back(v) on either declared vector
PushBackAny ==
    \E x \in Names : \E v \in EndVal :
        /\ Callable(x)
        /\ Commit("push_back", x, <<v>>, push_back(Machine, x, v))
        /\ UNCHANGED <<destroyed, calls>>

\* x = other
AssignOp ==
    \E x \in Names : \E other \in Names :
        /\ Callable(x)
        /\ other \notin destroyed
        /\ Commit("assign_op", x, <<other>>, assign_op(Machine, x, other))
        /\ UNCHANGED <<destroyed, calls>>

\* x = other, called with other.size() > x.max_size()
AssignOversized ==
    \E x \in Names : \E other \in Names :
        /\ vec[other].size > vec[x].max_size
        /\ Callable(x)
        /\ other \notin destroyed
        /\ Commit("assign_op", x, <<other>>, assign_op(Machine, x, other))
        /\ UNCHANGED <<destroyed, calls>>

\* x.swap(other)
Swap ==
    \E x \in Names : \E other \in Names :
        /\ Callable(x)
        /\ other \notin destroyed
        /\ Commit("swap", x, <<other>>, swap(Machine, x, other))
        /\ UNCHANGED <<destroyed, calls>>

\* the six relational operators applied to x and y
Compare ==
    \E x \in Names : \E y \in Names :
        /\ Callable(x)
        /\ y \notin destroyed
        /\ Commit("compare", x, <<y>>,
                  [Machine EXCEPT !.ret = [eq |-> op_eq(Machine, x, y),
                                           ne |-> op_ne(Machine, x, y),
                                           lt |-> op_lt(Machine, x, y),
                                           gt |-> op_gt(Machine, x, y),
                                           ge |-> op_ge(Machine, x, y),
                                           le |-> op_le(Machine, x, y)]])
        /\ UNCHANGED <<destroyed, calls>>

Next ==
    \/ Forget
    \/ SetHandler
    \/ At
    \/ Front
    \/ Back
    \/ PushBack0
    \/ PushBack
    \/ EmplaceBack
    \/ Emplace
    \/ PopBack
    \/ Insert
    \/ Erase
    \/ Clear
    \/ Destroy

Spec == Init /\ [][Next]_vars

\* The fillVec scenario without its full() guard: the calls
\* emplace_back().construct(i), i = 0, 1, 2, ... on a fresh vector
Fill ==
    \E x \in Names :
        /\ Callable(x)
        /\ calls[x] < Cap(x) + ExtraFill
        /\ Commit("fill", x, <<calls[x]>>,
                  construct(emplace_back(Machine, x), x, calls[x]))
        /\ calls' = [calls EXCEPT ![x] = @ + 1]
        /\ UNCHANGED destroyed

FillNext ==
    \/ Forget
    \/ SetHandler
    \/ Fill

FillSpec == Init /\ [][FillNext]_vars

\* The operations that take a count or a range of positions, on vectors
\* that are built with push_back(v), destroyed and declared again.
BulkNext ==
    \/ Forget
    \/ SetHandler
    \/ PushBack
    \/ InsertN
    \/ EraseRange
    \/ AssignN
    \/ Destroy
    \/ DeclareFill

BulkSpec == Init /\ [][BulkNext]_vars

\* The operations that take a source range, on vectors that are built
\* with push_back(v).
RangeNext ==
    \/ Forget
    \/ SetHandler
    \/ PushBack
    \/ AssignRange
    \/ InsertRange

RangeSpec == Init /\ [][RangeNext]_vars

\* The operations on two vectors, both built with push_back(v).
PairNext ==
    \/ Forget
    \/ SetHandler
    \/ PushBackAny
    \/ AssignOp
    \/ Compare
    \/ Swap

PairSpec == Init /\ [][PairNext]_vars

\* The operations that start with a check, on a vector built by them, and
\* operator= from a vector longer than the target's capacity, with the
\* default handler or, once the program has installed it,
\* AssertExceptionHandler.
CheckedNext ==
    \/ Forget
    \/ InstallRaising
    \/ At
    \/ Front
    \/ Back
    \/ PushBack
    \/ EmplaceBack
    \/ Emplace
    \/ PopBack
    \/ Insert
    \/ Erase
    \/ AssignOversized

CheckedSpec == Init /\ [][CheckedNext]_vars

\* Handlers installed at startup and through nested scopes, around
\* push_back() and pop_back() calls whose checks fail or pass.
ScopeNext ==
    \/ Forget
    \/ Install
    \/ EnterScope
    \/ ExitScope
    \/ GetHandler
    \/ PushBack0
    \/ PopBack

ScopeSpec == Init /\ [][ScopeNext]_vars

\* Handlers installed at any moment, inside scopes too, and scope objects
\* destroyed in any order.
FreeScopeNext ==
    \/ Forget
    \/ SetHandler
    \/ EnterScope
    \/ ExitAnyScope

FreeScopeSpec == Init /\ [][FreeScopeNext]_vars

(* ------------------------------ claims -------------------------------- *)

\* the last call: the vector's size, capacity and elements before it
PreSize == last.pre.vec[last.x].size
PreMax == last.pre.vec[last.x].max_size
PreElems == ElemsOf(last.pre.vec, last.pre.mem, last.x)
\* the last call found one condition false and dispatched it to the handler
\* installed at that moment (a null handler slot is skipped)
AssertedOnce ==
    /\ last.nfail = 1
    /\ last.invoked = IF last.pre.handler = "null" THEN << >> ELSE <<last.pre.handler>>
\* the last call ran to its end without a false condition
Clean == last.nfail = 0 /\ last.stop = "no" /\ last.invoked = << >>

\* C1: after every operation, whatever handler is installed,
\* 0 <= size() <= max_size().
SizeWithinCapacity ==
    \A x \in Names : 0 <= vec[x].size /\ vec[x].size <= vec[x].max_size

\* C2: pop_back() on a vector of size s > 0 runs the destructor of slot s-1
\* and of no other slot, leaves size s-1 and the slots [0, s-1) unchanged.
PopBackDestroysLast ==
    (last.op = "pop_back" /\ PreSize > 0 /\ PreSize <= PreMax)
        => /\ last.dtors = <<PreSize - 1>>
           /\ vec[last.x].size = PreSize - 1
           /\ Elems(last.x) = SubSeq(PreElems, 1, PreSize - 1)

\* C3: as long as no precondition was violated, no destructor runs on a slot
\* that holds no object, and once the declared vector is destroyed every
\* constructed element has been destroyed: none was overwritten undestroyed
\* and none is left in the buffer.
EveryElementDestroyedOnce ==
    ~failed
        => /\ ~rawDtor
           /\ \A x \in destroyed :
                /\ ~leak
                /\ \A i \in 0 .. Cap(x) - 1 : ~mem[x][i].obj

\* C4: push_back(), push_back(v), emplace_back(), emplace(p) and
\* insert(p, v) on a vector with size() == max_size() call assert_func once,
\* which invokes the installed handler.
FullInsertAsserts ==
    (/\ last.op \in {"push_back0", "push_back", "emplace_back", "emplace", "insert"}
     /\ PreSize = PreMax)
        => AssertedOnce
FullInsertAssertsWitness ==
    /\ last.op = "emplace"
    /\ PreSize = PreMax
    /\ last.invoked = <<"exception">>

\* C5: after k >= N calls emplace_back().construct(i), i = 0..k-1, on a fresh
\* vector of capacity N, size() == N and the contents are 0..N-1; every call
\* numbered N+1 or later invokes the installed handler.
FillStopsAtCapacity ==
    \A x \in Names :
        /\ calls[x] >= Cap(x)
            => /\ vec[x].size = Cap(x)
               /\ Elems(x) = [i \in 1 .. Cap(x) |-> i - 1]
        /\ (last.op = "fill" /\ last.x = x /\ last.args[1] >= Cap(x))
            => AssertedOnce

\* C6: pop_back() on an empty vector calls assert_func exactly once, which
\* invokes the installed handler exactly once.
PopBackEmptyAssertsOnce ==
    (last.op = "pop_back" /\ PreSize = 0) => AssertedOnce
PopBackEmptyAssertsOnceWitness ==
    /\ last.op = "pop_back"
    /\ PreSize = 0
    /\ last.invoked = <<"user">>
    /\ last.stop = "no"

\* C7: at(i) invokes the handler for every i >= size() and returns slot i
\* without invoking it for every i < size(); front() and back() invoke the
\* handler on an empty vector and otherwise return slot 0 and slot size()-1.
AccessorsChecked ==
    /\ (last.op = "at" /\ last.args[1] >= PreSize) => AssertedOnce
    /\ (last.op = "at" /\ last.args[1] < PreSize)
        => (Clean /\ last.ret = last.args[1])
    /\ (last.op \in {"front", "back"} /\ PreSize = 0) => AssertedOnce
    /\ (last.op = "front" /\ PreSize > 0) => (Clean /\ last.ret = 0)
    /\ (last.op = "back" /\ PreSize > 0) => (Clean /\ last.ret = PreSize - 1)
AccessorsCheckedWitness ==
    /\ last.op = "at"
    /\ PreSize = 2
    /\ last.args[1] = PreSize
    /\ last.invoked = <<"user">>
    /\ last.ret = 2

\* C8: end() - begin() == size(), compared in size_type as the C++
\* expression compares it, and begin() == end() exactly when empty().
IteratorsSpanSize ==
    \A x \in Names :
        /\ ToSizeType(end(Machine, x) - begin(Machine, x)) = size(Machine, x)
        /\ (begin(Machine, x) = end(Machine, x)) <=> empty(Machine, x)
IteratorsSpanSizeWitness ==
    /\ last.op = "erase"
    /\ PreSize = 3
    /\ vec["a"].size = 2
    /\ end(Machine, "a") - begin(Machine, "a") = 2

\* C9: push_back(v) on a non-full vector of size s leaves size s+1,
\* back() == v and the elements of slots [0, s) unchanged, in order.
PushBackAppends ==
    (last.op = "push_back" /\ PreSize < PreMax)
        => /\ Clean
           /\ vec[last.x].size = PreSize + 1
           /\ mem[vec[last.x].data][back(Machine, last.x).ret].val = last.args[1]
           /\ SubSeq(Elems(last.x), 1, PreSize) = PreElems
PushBackAppendsWitness ==
    /\ last.op = "push_back"
    /\ PreSize = 2
    /\ PreElems = <<1, 0>>
    /\ Elems("a") = <<1, 0, 1>>

\* C10: insert(p, v) on a non-full vector, p in [begin, end], leaves v at p,
\* the former [p, end) at [p+1, end+1) in the same order, the elements
\* before p unchanged, size increased by 1, and returns p.
InsertShiftsTail ==
    (last.op = "insert" /\ PreSize < PreMax)
        => LET p == last.args[1] IN
           /\ Clean
           /\ vec[last.x].size = PreSize + 1
           /\ Elems(last.x) = SubSeq(PreElems, 1, p) \o <<last.args[2]>>
                                \o SubSeq(PreElems, p + 1, PreSize)
           /\ last.ret = p
InsertShiftsTailWitness ==
    /\ last.op = "insert"
    /\ last.args = <<0, 1>>
    /\ PreElems = <<0, 1>>
    /\ Elems("a") = <<1, 0, 1>>

\* C11: erase(p) at a live position p of a vector of size s runs the
\* destructor of slot p and of no other slot, leaves size s-1, the elements
\* before p unchanged and the elements after p one slot to the left in the
\* same order, and returns p, now the position of the element that
\* followed (or end()).
EraseShiftsLeft ==
    (last.op = "erase" /\ last.args[1] < PreSize /\ PreSize <= PreMax)
        => LET p == last.args[1] IN
           /\ Clean
           /\ last.pre.mem[last.x][p].obj
           /\ last.dtors = <<p>>
           /\ vec[last.x].size = PreSize - 1
           /\ Elems(last.x) = SubSeq(PreElems, 1, p) \o SubSeq(PreElems, p + 2, PreSize)
           /\ \A i \in 0 .. PreSize - 2 : mem[last.x][i].obj
           /\ last.ret = p
EraseShiftsLeftWitness ==
    /\ last.op = "erase"
    /\ last.args = <<0>>
    /\ PreElems = <<1, 0, 1>>
    /\ Elems("a") = <<0, 1>>
    /\ last.dtors = <<0>>

\* C12: erase(end()) changes nothing on any vector, the empty one
\* included: size, contents and buffer stay as they were, no destructor
\* runs, no condition fails, no handler is invoked, and end() is returned.
EraseEndNoOp ==
    (last.op = "erase" /\ last.args[1] = PreSize)
        => /\ Clean
           /\ last.dtors = << >>
           /\ vec = last.pre.vec
           /\ mem = last.pre.mem
           /\ last.ret = end(Machine, last.x)
EraseEndNoOpWitness ==
    /\ last.op = "erase"
    /\ PreSize = 0
    /\ last.args = <<0>>
    /\ last.ret = 0
    /\ vec["a"].size = 0

\* C13: erase(first, last) with begin() <= first <= last <= end() runs the
\* destructor of each slot of [first, last) once and of no other slot,
\* leaves [last, end) at first in the same order and the elements before
\* first unchanged, decreases size by last - first and returns first.
EraseRangeCloses ==
    (/\ last.op = "erase_range"
     /\ last.args[1] <= last.args[2]
     /\ last.args[2] <= PreSize
     /\ PreSize <= PreMax)
        => LET f == last.args[1]
               l == last.args[2]
           IN /\ Clean
              /\ \A i \in f .. l - 1 : last.pre.mem[last.x][i].obj
              /\ last.dtors = [i \in 1 .. l - f |-> f + i - 1]
              /\ vec[last.x].size = PreSize - (l - f)
              /\ Elems(last.x) = SubSeq(PreElems, 1, f) \o SubSeq(PreElems, l + 1, PreSize)
              /\ \A i \in 0 .. PreSize - (l - f) - 1 : mem[last.x][i].obj
              /\ last.ret = f
EraseRangeClosesWitness ==
    /\ last.op = "erase_range"
    /\ last.args = <<0, 2>>
    /\ PreElems = <<0, 0, 1>>
    /\ Elems("a") = <<1>>
    /\ last.dtors = <<0, 1>>

\* C14: erase(first, last) calls assert_func, which invokes the installed
\* handler, whenever last > end() and whenever last < first.
EraseRangeAsserts ==
    (/\ last.op = "erase_range"
     /\ PreSize <= PreMax
     /\ (last.args[2] > PreSize \/ last.args[2] < last.args[1]))
        => AssertedOnce

\* C15: clear() on a vector of size s leaves size() == 0 and runs the
\* destructor of each of the slots 0 .. s-1, which all held a live element,
\* exactly once and of no other slot.
ClearDestroysAll ==
    (last.op = "clear" /\ PreSize <= PreMax)
        => /\ Clean
           /\ vec[last.x].size = 0
           /\ \A i \in 0 .. PreSize - 1 : last.pre.mem[last.x][i].obj
           /\ last.dtors = [i \in 1 .. PreSize |-> i - 1]
           /\ \A i \in 0 .. PreSize - 1 : ~mem[last.x][i].obj
ClearDestroysAllWitness ==
    /\ last.op = "clear"
    /\ PreSize = 3
    /\ last.dtors = <<0, 1, 2>>
    /\ vec["a"].size = 0

\* C16: assign(n, v) on a vector of capacity N, whatever it held, and the
\* fill constructor (n, v) leave size() == min(n, N) and every element
\* equal to v, and no condition fails and no handler is invoked, for
\* n > N too.
AssignFills ==
    (\/ last.op = "ctor_fill"
     \/ last.op = "assign_n" /\ PreSize <= PreMax)
        => LET n == last.args[1]
               k == Min(n, Cap(last.x))
           IN /\ Clean
              /\ vec[last.x].size = k
              /\ vec[last.x].max_size = Cap(last.x)
              /\ Elems(last.x) = [i \in 1 .. k |-> last.args[2]]
              /\ \A i \in 0 .. k - 1 : mem[last.x][i].obj
AssignFillsWitness ==
    /\ last.op = "assign_n"
    /\ last.args = <<CapA + 1, 1>>
    /\ PreElems = <<0, 1>>
    /\ Elems("a") = [i \in 1 .. CapA |-> 1]

\* C17: assign(first, last) from a source range of length L runs the
\* destructor of every previous element once and leaves the vector holding
\* the first min(L, N) source elements in source order; no condition fails
\* and no handler is invoked.
AssignRangeCopies ==
    (last.op = "assign_range" /\ PreSize <= PreMax)
        => LET src == last.args[1]
               k   == Min(Len(src), Cap(last.x))
           IN /\ Clean
              /\ last.dtors = [i \in 1 .. PreSize |-> i - 1]
              /\ vec[last.x].size = k
              /\ Elems(last.x) = SubSeq(src, 1, k)
              /\ \A i \in 0 .. k - 1 : mem[last.x][i].obj
              /\ \A i \in 0 .. PreSize - 1 : last.pre.mem[last.x][i].obj
AssignRangeCopiesWitness ==
    /\ last.op = "assign_range"
    /\ Len(last.args[1]) = CapA + 1
    /\ PreElems = <<1, 1>>
    /\ Elems("a") = SubSeq(last.args[1], 1, CapA)
    /\ last.args[1][1] # last.args[1][2]

\* C18: insert(p, n, v) with size() + n <= max_size() leaves the elements
\* before p unchanged, n copies of v in [p, p+n), the former [p, end) in
\* [p+n, end+n) in the same order and size increased by n, and changes
\* nothing for n == 0; with size() + n > max_size() it calls assert_func,
\* which invokes the installed handler.
InsertNShiftsTail ==
    (last.op = "insert_n" /\ PreSize <= PreMax)
        => LET p == last.args[1]
               n == last.args[2]
           IN /\ PreSize + n <= PreMax
                    => /\ Clean
                       /\ vec[last.x].size = PreSize + n
                       /\ Elems(last.x) = SubSeq(PreElems, 1, p)
                                            \o [i \in 1 .. n |-> last.args[3]]
                                            \o SubSeq(PreElems, p + 1, PreSize)
                       /\ n = 0 => (vec = last.pre.vec /\ mem = last.pre.mem)
              /\ PreSize + n > PreMax => AssertedOnce

\* C19: insert(p, first, last) from a source range of length L into a
\* vector of size s and capacity N inserts the first min(L, N - s) source
\* elements in source order at p, p+1, ..., keeps the former [p, end)
\* behind them in the same order and the elements before p unchanged,
\* leaves size() <= max_size(), invokes no handler, and returns p, the
\* position of the first inserted element.
InsertRangeInOrder ==
    (last.op = "insert_range" /\ PreSize <= PreMax)
        => LET p   == last.args[1]
               src == last.args[2]
               k   == Min(Len(src), PreMax - PreSize)
           IN /\ Clean
              /\ vec[last.x].size = PreSize + k
              /\ vec[last.x].size <= vec[last.x].max_size
              /\ Elems(last.x) = SubSeq(PreElems, 1, p) \o SubSeq(src, 1, k)
                                   \o SubSeq(PreElems, p + 1, PreSize)
              /\ \A i \in 0 .. PreSize + k - 1 : mem[last.x][i].obj
              /\ last.ret = p
InsertRangeInOrderWitness ==
    /\ last.op = "insert_range"
    /\ last.args = <<0, <<0, 1>> >>
    /\ PreElems = <<1>>
    /\ Elems("a") = <<0, 1, 1>>
    /\ last.ret = 0

\* C20: a = b for distinct vectors with b.size() <= a.max_size(), a
\* shorter than, as long as or longer than b, leaves a.size() == b.size()
\* and a[i] == b[i] for every i < b.size(), leaves b as it was, and runs
\* the destructor of exactly the surplus elements of a, the slots
\* b.size() .. a.size()-1, once each.
CopyAssignCopies ==
    (/\ last.op = "assign_op"
     /\ last.args[1] # last.x
     /\ PreSize <= PreMax
     /\ last.pre.vec[last.args[1]].size <= PreMax)
        => LET a  == last.x
               b  == last.args[1]
               sb == last.pre.vec[b].size
           IN /\ Clean
              /\ vec[a].size = sb
              /\ Elems(a) = ElemsOf(last.pre.vec, last.pre.mem, b)
              /\ \A i \in 0 .. sb - 1 : mem[vec[a].data][i].obj
              /\ vec[b] = last.pre.vec[b]
              /\ mem[vec[b].data] = last.pre.mem[vec[b].data]
              /\ last.dtors = [i \in 1 .. PreSize - sb |-> sb + i - 1]
              /\ \A i \in sb .. PreSize - 1 : ~mem[vec[a].data][i].obj
CopyAssignCopiesWitness ==
    /\ last.op = "assign_op"
    /\ last.x = "a"
    /\ last.args = <<"b">>
    /\ PreElems = <<0, 0, 1>>
    /\ Elems("b") = <<1>>
    /\ Elems("a") = <<1>>
    /\ last.dtors = <<1, 2>>

\* C21: a = b for distinct vectors with b.size() > a.max_size() calls
\* assert_func, which invokes the installed handler.
CopyAssignOverflowAsserts ==
    (/\ last.op = "assign_op"
     /\ last.pre.vec[last.args[1]].data # last.pre.vec[last.x].data
     /\ last.pre.vec[last.args[1]].size > PreMax)
        => AssertedOnce
CopyAssignOverflowAssertsWitness ==
    /\ last.op = "assign_op"
    /\ last.x = "b"
    /\ last.args = <<"a">>
    /\ last.pre.vec["a"].size = 3
    /\ PreMax = 2
    /\ last.invoked = <<"user">>

\* C22: a = a leaves the size, the capacity and every slot of a as they
\* were, runs no element constructor, copy assignment or destructor, and
\* no condition fails and no handler is invoked.
SelfAssignNoOp ==
    (last.op = "assign_op" /\ last.args[1] = last.x)
        => /\ Clean
           /\ vec = last.pre.vec
           /\ mem = last.pre.mem
           /\ last.ctors = << >>
           /\ last.copies = << >>
           /\ last.dtors = << >>
SelfAssignNoOpWitness ==
    /\ last.op = "assign_op"
    /\ last.x = "a"
    /\ last.args = <<"a">>
    /\ PreElems = <<0, 1>>
    /\ Elems("a") = <<0, 1>>
    /\ last.copies = << >>

\* C23: a == b holds exactly when a.size() == b.size() and a[i] == b[i]
\* for every i < a.size(); a != b holds exactly when a == b does not.
EqualIffSameElements ==
    last.op = "compare"
        => /\ last.ret.eq <=> Elems(last.x) = Elems(last.args[1])
           /\ last.ret.ne <=> ~last.ret.eq
EqualIffSameElementsWitness ==
    /\ last.op = "compare"
    /\ last.x = "a"
    /\ last.args = <<"b">>
    /\ Elems("a") = <<0, 1>>
    /\ Elems("b") = <<1, 1>>
    /\ ~last.ret.eq
    /\ last.ret.ne

\* standard lexicographic order of two sequences: at the first index where
\* they differ s has the smaller element, or s is a proper prefix of t
LexLess(s, t) ==
    \E k \in 0 .. Min(Len(s), Len(t)) :
        /\ SubSeq(s, 1, k) = SubSeq(t, 1, k)
        /\ \/ k = Len(s) /\ k < Len(t)
           \/ k < Len(s) /\ k < Len(t) /\ s[k + 1] < t[k + 1]

\* C24: a < b holds exactly when a precedes b in standard lexicographic
\* order, the lengths of a and b being equal or not.
LessIsLexicographic ==
    last.op = "compare"
        => (last.ret.lt <=> LexLess(Elems(last.x), Elems(last.args[1])))

\* C25: for all a and b, of equal size or not, a > b iff b < a, a <= b iff
\* (a < b or a == b), a >= b iff (a > b or a == b), and exactly one of
\* a < b, a == b, a > b holds.
RelationalConsistent ==
    last.op = "compare"
        => LET r == last.ret IN
           /\ r.gt <=> op_lt(Machine, last.args[1], last.x)
           /\ r.le <=> (r.lt \/ r.eq)
           /\ r.ge <=> (r.gt \/ r.eq)
           /\ \/ r.lt /\ ~r.eq /\ ~r.gt
              \/ ~r.lt /\ r.eq /\ ~r.gt
              \/ ~r.lt /\ ~r.eq /\ r.gt

\* C26: swap(a, b) leaves a with the element sequence and size b had and
\* b with those a had, runs no element constructor, copy assignment or
\* destructor, writes no slot, and a second swap(a, b) gives both vectors
\* back as they were.
SwapExchanges ==
    last.op = "swap"
        => LET a == last.x
               b == last.args[1]
           IN /\ Clean
              /\ Elems(a) = ElemsOf(last.pre.vec, last.pre.mem, b)
              /\ Elems(b) = ElemsOf(last.pre.vec, last.pre.mem, a)
              /\ vec[a].size = last.pre.vec[b].size
              /\ vec[b].size = last.pre.vec[a].size
              /\ last.ctors = << >> /\ last.copies = << >> /\ last.dtors = << >>
              /\ mem = last.pre.mem
              /\ swap(Machine, a, b).vec = last.pre.vec
SwapExchangesWitness ==
    /\ last.op = "swap"
    /\ last.x = "a"
    /\ last.args = <<"b">>
    /\ PreElems = <<0, 1, 1>>
    /\ Elems("a") = <<1>>
    /\ Elems("b") = <<0, 1, 1>>

\* C27: after every sequence of operations, swap with a vector of another
\* capacity included, max_size() of a declared vector is its declared N.
CapacityFixed ==
    \A x \in Names : max_size(Machine, x) = Cap(x)

\* C28: after every sequence of operations, swap included, the elements
\* of a declared vector are stored in its own inline buffer: begin() is
\* slot 0 of the buffer the vector embeds, and end() is begin() + size().
OwnInlineStorage ==
    \A x \in Names :
        /\ vec[x].data = x
        /\ end(Machine, x) = begin(Machine, x) + size(Machine, x)

\* C29: for properly nested scopes, the handler installed right after a
\* scope is entered is its replacement, leaving a scope restores the
\* handler that was installed when it was entered (after the outermost exit
\* the one installed before the outermost entry), and while scopes are
\* alive the installed handler is the replacement of the innermost one.
ScopesRestoreHandler ==
    /\ last.op = "scope_enter" => handler = last.args[1]
    /\ last.op = "scope_exit" => handler = last.args[1].outer
    /\ scopes # << >> => handler = scopes[Len(scopes)].next
    /\ \A i \in 2 .. Len(scopes) : scopes[i].outer = scopes[i - 1].next
ScopesRestoreHandlerWitness ==
    /\ last.op = "scope_exit"
    /\ scopes = << >>
    /\ last.pre.handler = "user"
    /\ last.args[1].outer = "exception"
    /\ handler = "exception"

\* C30: every check that fails calls the handler installed at that moment,
\* the one the latest set_assert_handler, scope entry or scope exit put
\* into the slot, once, with the file, line and text of that very check,
\* and a call none of whose checks fails calls no handler.
FailingCheckDispatched ==
    /\ last.op = "set_assert_handler" => handler = last.args[1]
    /\ last.op \in {"push_back0", "pop_back"}
        => /\ handler = last.pre.handler
           /\ Len(last.checks) = last.nfail
           /\ IF last.pre.handler = "null"
              THEN last.invoked = << >> /\ last.ctx = << >>
              ELSE /\ last.invoked = [i \in 1 .. last.nfail |-> last.pre.handler]
                   /\ last.ctx = last.checks
           /\ (last.op = "pop_back" /\ PreSize = 0)
                => last.checks = <<[file |-> 0, line |-> 945, test |-> "size() > 0"]>>
           /\ (last.op = "push_back0" /\ PreSize = PreMax)
                => last.checks = <<[file |-> 0, line |-> 910, test |-> "!full()"]>>
           /\ (last.op = "pop_back" /\ PreSize # 0) => Clean
           /\ (last.op = "push_back0" /\ PreSize # PreMax) => Clean
FailingCheckDispatchedWitness ==
    /\ last.op = "pop_back"
    /\ PreSize = 0
    /\ Len(scopes) = 2
    /\ scopes[1].next = "exception"
    /\ scopes[2].next = "user"
    /\ last.invoked = <<"user">>
    /\ last.ctx = <<[file |-> 0, line |-> 945, test |-> "size() > 0"]>>

\* C31: get_assert_handler() returns the default (aborting) handler before
\* any installation, and after set_assert_handler calls made while no scope
\* is alive it returns the argument of the most recent of them.
GetHandlerReturnsLatest ==
    (last.op = "get_assert_handler" /\ scopes = << >>) =>
        last.ret = installed
GetHandlerReturnsLatestWitness ==
    /\ last.op = "get_assert_handler" /\ scopes = << >>
    /\ installed = "user" /\ last.ret = "user"

\* the machine state the last call started from
PreMachine ==
    [Machine EXCEPT !.vec = last.pre.vec, !.mem = last.pre.mem,
                    !.handler = last.pre.handler, !.ub = FALSE]
\* M is what the last call left behind: the same vectors and buffers (so
\* the same size and element sequence), the same checks failed, the same
\* handlers invoked with the same ending, the same constructor calls
SameOutcome(M) ==
    /\ M.vec = vec /\ M.mem = mem /\ M.ub = ub
    /\ size(M, last.x) = vec[last.x].size
    /\ ElemsOf(M.vec, M.mem, last.x) = Elems(last.x)
    /\ M.nfail = last.nfail /\ M.invoked = last.invoked /\ M.stop = last.stop
    /\ M.ctors = last.ctors /\ M.dtors = last.dtors

\* C32: from the same starting state, push_back(v) and
\* emplace_back().construct(v) yield the same size, the same elements and
\* the same handler invocations, and so do insert(p, v) and
\* emplace(p).construct(v), on non-full and on full vectors.
EmplaceEquivalent ==
    /\ (last.op = "push_back" /\ PreSize <= PreMax) =>
          SameOutcome(construct(emplace_back(PreMachine, last.x), last.x, last.args[1]))
    /\ (last.op = "emplace_back" /\ PreSize <= PreMax) =>
          SameOutcome(push_back(PreMachine, last.x, last.args[1]))
    /\ (last.op = "insert" /\ PreSize <= PreMax) =>
          SameOutcome(construct(emplace(PreMachine, last.x, last.args[1]),
                                last.x, last.args[2]))
    /\ (last.op = "emplace" /\ PreSize <= PreMax) =>
          SameOutcome(insert(PreMachine, last.x, last.args[1], last.args[2]))
\* insert(begin(), 1) into a full vector while the raising handler is installed
EmplaceEquivalentWitness ==
    /\ last.op = "insert" /\ last.args = <<0, 1>> /\ PreSize = PreMax
    /\ last.invoked = <<"exception">> /\ Elems(last.x) = PreElems
    /\ SameOutcome(construct(emplace(PreMachine, last.x, 0), last.x, 1))

\* the operations that change the vector the last call was made on
MutatingOps ==
    {"push_back0", "push_back", "emplace_back", "emplace", "insert", "insert_n",
     "insert_range", "pop_back", "erase", "erase_range", "clear", "assign_n",
     "assign_range", "assign_op", "swap"}
\* those of them that add or remove one element
SingleElementOps ==
    {"push_back0", "push_back", "emplace_back", "emplace", "insert", "pop_back", "erase"}
\* the last call took a vector of capacity N >= 2 from full to empty or
\* from empty to full
Jumped ==
    /\ PreMax >= 2
    /\ \/ PreSize = PreMax /\ vec[last.x].size = 0
       \/ PreSize = 0 /\ vec[last.x].size = PreMax

\* C33: every single mutating operation keeps the vector within partial
\* or moves it to an adjacent state of the capacity axis; none takes it
\* from full to empty or from empty to full when N >= 2.  Stated for the
\* calls whose checks all passed.
CapacityAxisAdjacent ==
    (last.op \in MutatingOps /\ Clean) => ~Jumped
\* C33, amended: a single-element operation (push_back, emplace_back,
\* emplace, insert(p, v), pop_back, erase(p)) whose checks pass changes
\* size() by one (erase(end()) by nothing), and whatever the handler does
\* it never takes a vector with N >= 2 from full to empty or from empty
\* to full.
SingleElementOpsAdjacent ==
    (last.op \in SingleElementOps /\ PreSize <= PreMax) =>
        /\ ~Jumped
        /\ Clean =>
              vec[last.x].size =
                  CASE last.op \in {"push_back0", "push_back", "emplace_back",
                                    "emplace", "insert"} -> PreSize + 1
                    [] last.op = "pop_back" -> PreSize - 1
                    [] last.op = "erase" ->
                         IF last.args[1] = PreSize THEN PreSize ELSE PreSize - 1
\* pop_back() takes a full vector of capacity N >= 2 to partial
SingleElementOpsAdjacentWitness ==
    /\ last.op = "pop_back" /\ Clean /\ PreMax >= 2
    /\ PreSize = PreMax /\ vec[last.x].size = PreMax - 1

\* C34: when a check of an operation fails and the installed handler
\* raises, the vector's size and elements are what they were before the
\* call and no element constructor or destructor has run.
RaiseLeavesVectorUnchanged ==
    last.stop = "raised" =>
        /\ last.nfail = 1 /\ last.invoked = <<"exception">>
        /\ vec = last.pre.vec /\ mem = last.pre.mem
        /\ vec[last.x].size = PreSize /\ Elems(last.x) = PreElems
        /\ last.ctors = << >> /\ last.dtors = << >> /\ last.copies = << >>
\* b = a with a.size() > b.max_size() under the raising handler
RaiseLeavesVectorUnchangedWitness ==
    /\ last.op = "assign_op" /\ last.stop = "raised" /\ last.x = "b"
    /\ last.pre.vec["a"].size > last.pre.vec["b"].max_size
    /\ vec["b"].size = 0

\* C35: with a null handler installed, a failing check calls nothing and
\* returns, and the operation goes on as if the check had passed: the
\* accessors return their slot, the inserting operations construct an
\* element and count it, the removing ones destroy one and discount it.
NullHandlerContinues ==
    (last.op # "none" /\ last.pre.handler = "null" /\ last.nfail > 0) =>
        /\ last.nfail = 1 /\ Len(last.checks) = 1
        /\ last.invoked = << >> /\ last.ctx = << >> /\ last.stop = "no"
        /\ status = "running"
        /\ last.op = "at" => last.ret = last.args[1]
        /\ last.op = "front" => last.ret = 0
        /\ last.op = "back" => last.ret = (PreSize - 1) % SizeMod
        /\ last.op \in {"push_back0", "push_back", "emplace_back"} =>
              /\ vec[last.x].size = (PreSize + 1) % SizeMod
              /\ last.ctors = <<PreSize>>
        /\ last.op \in {"emplace", "insert"} =>
              /\ vec[last.x].size = (PreSize + 1) % SizeMod
              /\ last.ctors = <<last.args[1]>>
        /\ last.op = "pop_back" =>
              /\ vec[last.x].size = (PreSize - 1) % SizeMod
              /\ last.dtors = <<PreSize>>
        /\ last.op = "erase" =>
              /\ vec[last.x].size = (PreSize - 1) % SizeMod
              /\ last.dtors = <<last.args[1]>>
\* pop_back() on an empty vector with the null handler: _size wraps
NullHandlerContinuesWitness ==
    /\ last.op = "pop_back" /\ last.pre.handler = "null" /\ PreSize = 0
    /\ last.nfail = 1 /\ last.invoked = << >>
    /\ vec[last.x].size = SizeMod - 1 /\ last.dtors = <<0>>

\* C36: a scope exit installs the handler that was installed when that
\* scope was entered, whatever set_assert_handler calls were made inside
\* it and whatever other scopes are still alive: after scopes exited out
\* of order the handler is the one saved by the scope that exited last.
ScopeExitInstallsSaved ==
    last.op = "scope_exit" =>
        /\ handler = last.args[1].outer
        /\ handler = last.args[1].current
\* a scope that is not the innermost exits after set_assert_handler was
\* called inside it: the handler set last is replaced by the saved one
ScopeExitInstallsSavedWitness ==
    /\ last.op = "scope_exit" /\ last.args[2] < last.args[3]
    /\ last.pre.handler = installed
    /\ installed # last.args[1].outer
    /\ installed # scopes[Len(scopes)].next
    /\ handler = last.args[1].outer

\* C37: insert(p, n, v) invokes the assertion handler for every n with
\* size() + n > max_size() as mathematical integers, also when size() + n
\* wraps around in size_type.
InsertNAssertsOnOverflow ==
    (last.op = "insert_n" /\ PreSize <= PreMax /\ PreSize + last.args[2] > PreMax)
        => /\ last.nfail = 1
           /\ last.pre.handler # "null" => last.invoked = <<last.pre.handler>>

\* C38: a = b with b.size() > a.max_size() and a handler that returns (or
\* the null handler) writes nothing past a's storage: a ends with
\* size() == a.max_size() holding the first a.max_size() elements of b in
\* order, and b is unchanged.
OversizedAssignTruncates ==
    LET a == last.x
        b == last.args[1]
    IN (/\ last.op = "assign_op"
        /\ last.pre.vec[a].data # last.pre.vec[b].data
        /\ last.pre.vec[b].size > PreMax
        /\ PreSize <= PreMax
        /\ last.pre.vec[b].size <= Cap(last.pre.vec[b].data)
        /\ last.stop = "no")
       => /\ AssertedOnce
          /\ ~ub
          /\ \A i \in 1 .. Len(last.ctors) : InBuf(vec[a].data, last.ctors[i])
          /\ vec[a].size = PreMax /\ vec[a].max_size = PreMax
          /\ Elems(a) = SubSeq(ElemsOf(last.pre.vec, last.pre.mem, b), 1, PreMax)
          /\ vec[b] = last.pre.vec[b]
          /\ mem[vec[b].data] = last.pre.mem[vec[b].data]
\* b = a with a = <<0, MaxVal, MaxVal>>, b = <<MaxVal>> of capacity 2 and
\* a handler that returns
OversizedAssignTruncatesWitness ==
    /\ last.op = "assign_op" /\ last.x = "b" /\ last.args = <<"a">>
    /\ last.pre.handler = "user" /\ last.invoked = <<"user">>
    /\ last.pre.vec["b"].data = "b" /\ last.pre.vec["a"].data = "a"
    /\ PreElems = <<MaxVal>>
    /\ last.pre.vec["a"].size = CapB + 1
    /\ Elems("b") = SubSeq(Elems("a"), 1, CapB)
    /\ Elems("a")[1] = 0 /\ Elems("a")[2] = MaxVal
====
